---- MODULE Spec2Model ----
(***************************************************************************)
(* Model of the address book of main.py: the field validators (Phone,     *)
(* Birthday), Record, the AddressBook store with its pickle persistence,  *)
(* and the command loop of main().                                         *)
(*                                                                         *)
(* Strings are sequences of one-character strings, so that the regular    *)
(* expression of Phone, strptime's parse and the substring test of search *)
(* are computed character by character.  An exception raised by the code  *)
(* is the "err" field of an operator's result; "none" is normal return.   *)
(***************************************************************************)
EXTENDS Integers, Sequences, FiniteSets, TLC

VARIABLES pc, data, file, today, last

vars == <<pc, data, file, today, last>>

\* ------------------------------------------------------------------ bounds

\* How many of the days of Days the store is used on.
NumDays == 2

\* ----------------------------------------------------------------- strings

Digits == {"0", "1", "2", "3", "4", "5", "6", "7", "8", "9"}

DigitVal(c) ==
    CASE c = "0" -> 0 [] c = "1" -> 1 [] c = "2" -> 2 [] c = "3" -> 3
      [] c = "4" -> 4 [] c = "5" -> 5 [] c = "6" -> 6 [] c = "7" -> 7
      [] c = "8" -> 8 [] c = "9" -> 9

\* int() of a non-empty string of digits.
RECURSIVE ToInt(_)
ToInt(s) ==
    IF Len(s) = 0 THEN 0
    ELSE 10 * ToInt(SubSeq(s, 1, Len(s) - 1)) + DigitVal(s[Len(s)])

AllDigits(s) == \A i \in DOMAIN s : s[i] \in Digits

\* str.lower() on the letters the inputs use.
LowerChar(c) ==
    CASE c = "A" -> "a" [] c = "B" -> "b" [] c = "L" -> "l" [] c = "O" -> "o"
      [] c = "Z" -> "z" [] c = "E" -> "e" [] c = "D" -> "d"
      [] OTHER -> c

lower(s) == [i \in 1..Len(s) |-> LowerChar(s[i])]

\* Contains with the empty string taken to occur nowhere.
ContainsNonEmpty(q, s) ==
    /\ Len(q) > 0
    /\ \E i \in 0..(Len(s) - Len(q)) : SubSeq(s, i + 1, i + Len(q)) = q

\* Python's  q in s  for strings: q occurs in s as a contiguous substring.
Contains(q, s) ==
    \E i \in 0..(Len(s) - Len(q)) : SubSeq(s, i + 1, i + Len(q)) = q

\* ------------------------------------------------------------------- Phone

\* The number of digits the pattern asks for after 380.
PhoneDigits == 9

\* re.match(r'^\+?380\d{9}$', value): an optional plus, 380, nine digits;
\* $ also matches just before one final newline.
PhoneMatch(value) ==
    LET s == IF Len(value) > 0 /\ value[Len(value)] = "\n"
             THEN SubSeq(value, 1, Len(value) - 1) ELSE value
        body == IF Len(s) > 0 /\ s[1] = "+" THEN Tail(s) ELSE s
    IN  /\ Len(body) = 3 + PhoneDigits
        /\ SubSeq(body, 1, 3) = <<"3", "8", "0">>
        /\ \A i \in 4..Len(body) : body[i] \in Digits

\* Phone(value): the setter raises ValueError unless the pattern matches.
Phone(value) ==
    IF PhoneMatch(value) THEN [err |-> "none", value |-> value]
    ELSE [err |-> "ValueError", value |-> <<>>]

\* ------------------------------------------------------------------- dates

Date(y, m, d) == [year |-> y, month |-> m, day |-> d]

NoDate == Date(0, 0, 0)

IsLeap(y) == (y % 4 = 0) /\ ((y % 100 # 0) \/ (y % 400 = 0))

DaysInMonth(y, m) ==
    CASE m \in {1, 3, 5, 7, 8, 10, 12} -> 31
      [] m \in {4, 6, 9, 11} -> 30
      [] m = 2 -> IF IsLeap(y) THEN 29 ELSE 28

\* date(y, m, d) raises ValueError unless this holds.
ValidDate(y, m, d) ==
    /\ y \in 1..9999
    /\ m \in 1..12
    /\ d >= 1
    /\ d <= DaysInMonth(y, m)

\* date.__lt__
DateLT(a, b) ==
    \/ a.year < b.year
    \/ a.year = b.year /\ a.month < b.month
    \/ a.year = b.year /\ a.month = b.month /\ a.day < b.day

RECURSIVE DaysBeforeMonth(_, _)
DaysBeforeMonth(y, m) ==
    IF m = 1 THEN 0 ELSE DaysBeforeMonth(y, m - 1) + DaysInMonth(y, m - 1)

\* date.toordinal()
Ordinal(dt) ==
    LET y == dt.year - 1
    IN  365 * y + (y \div 4) - (y \div 100) + (y \div 400)
        + DaysBeforeMonth(dt.year, dt.month) + dt.day

\* (a - b).days
DaysBetween(a, b) == Ordinal(a) - Ordinal(b)

\* ---------------------------------------------------------------- Birthday

\* %d of strptime: 3[0-1] | [1-2]\d | 0[1-9] | [1-9]
DayField(s) ==
    /\ AllDigits(s)
    /\ \/ Len(s) = 2 /\ ToInt(s) \in 1..31
       \/ Len(s) = 1 /\ ToInt(s) \in 1..9

\* %m of strptime: 1[0-2] | 0[1-9] | [1-9]
MonthField(s) ==
    /\ AllDigits(s)
    /\ \/ Len(s) = 2 /\ ToInt(s) \in 1..12
       \/ Len(s) = 1 /\ ToInt(s) \in 1..9

\* The splits of the string the pattern of '%d%m%Y' tries, in the order the
\* regular expression engine tries them: <<width of %d, width of %m>>.
FieldWidths == << <<2, 2>>, <<2, 1>>, <<1, 2>>, <<1, 1>> >>

SplitMatches(s, w) ==
    /\ Len(s) = w[1] + w[2] + 4
    /\ DayField(SubSeq(s, 1, w[1]))
    /\ MonthField(SubSeq(s, w[1] + 1, w[1] + w[2]))
    /\ AllDigits(SubSeq(s, w[1] + w[2] + 1, Len(s)))

\* datetime.strptime(value, '%d%m%Y').date(): the first split that matches
\* gives the fields; ValueError when none matches or the date does not exist.
strptime(value) ==
    LET ok == {k \in DOMAIN FieldWidths : SplitMatches(value, FieldWidths[k])}
    IN  IF ok = {} THEN [err |-> "ValueError", value |-> NoDate]
        ELSE LET k == CHOOSE k \in ok : \A j \in ok : k <= j
                 w == FieldWidths[k]
                 d == ToInt(SubSeq(value, 1, w[1]))
                 m == ToInt(SubSeq(value, w[1] + 1, w[1] + w[2]))
                 y == ToInt(SubSeq(value, w[1] + w[2] + 1, Len(value)))
             IN  IF ValidDate(y, m, d)
                 THEN [err |-> "none", value |-> Date(y, m, d)]
                 ELSE [err |-> "ValueError", value |-> NoDate]

\* date.replace(year=y)
ReplaceYear(dt, y) ==
    IF ValidDate(y, dt.month, dt.day)
    THEN [err |-> "none", value |-> Date(y, dt.month, dt.day)]
    ELSE [err |-> "ValueError", value |-> NoDate]

\* Birthday(value) on the day now.  A Birthday object has the attribute
\* _value only when the setter assigned it: has = FALSE is the object
\* without it.  value is <<>> for the None the add command passes when the
\* line has no third word.
Birthday(value, now) ==
    IF value = <<>> THEN [err |-> "none", has |-> FALSE, value |-> NoDate]
    ELSE LET p == strptime(value)
         IN  IF p.err # "none"
             THEN [err |-> "ValueError", has |-> FALSE, value |-> NoDate]
             ELSE IF DateLT(p.value, now)
                  THEN LET r == ReplaceYear(p.value, now.year + 1)
                       IN  [err |-> r.err, has |-> r.err = "none", value |-> r.value]
                  ELSE [err |-> "none", has |-> TRUE, value |-> p.value]

\* ------------------------------------------------------------------ Record

\* Record(name, phones, birthday)
Record(name, phones, birthday) ==
    [name |-> name, phones |-> phones, birthday |-> birthday]

\* Record.days_to_birthday(): reading birthday.value of a Birthday object
\* that never got _value raises AttributeError; date(...) raises ValueError
\* for a day the year does not have.
days_to_birthday(record, now) ==
    IF ~record.birthday.has THEN [err |-> "AttributeError", days |-> 0]
    ELSE LET bd == record.birthday.value
         IN  IF ~ValidDate(now.year, bd.month, bd.day)
             THEN [err |-> "ValueError", days |-> 0]
             ELSE LET next_birthday == Date(now.year, bd.month, bd.day)
                  IN  IF DateLT(next_birthday, now)
                      THEN IF ~ValidDate(now.year + 1, bd.month, bd.day)
                           THEN [err |-> "ValueError", days |-> 0]
                           ELSE [err |-> "none",
                                 days |-> DaysBetween(Date(now.year + 1, bd.month, bd.day), now)]
                      ELSE [err |-> "none", days |-> DaysBetween(next_birthday, now)]

\* Record.__str__(): the exception of days_to_birthday, if any, is its own.
RecordStr(record, now) == days_to_birthday(record, now).err

\* Record.edit_phone(index, phone) with index 0.
edit_phone(record, phone) ==
    LET ph == Phone(phone)
    IN  IF ph.err # "none" THEN [err |-> ph.err, record |-> record]
        ELSE IF Len(record.phones) = 0 THEN [err |-> "IndexError", record |-> record]
        ELSE [err |-> "none",
              record |-> [record EXCEPT !.phones = [record.phones EXCEPT ![1] = ph.value]]]

\* ------------------------------------------------------------- AddressBook

\* The store is the dict self.data in its insertion order: a sequence of
\* records with distinct names.
KeyIndex(d, name) ==
    IF \E i \in DOMAIN d : d[i].name = name
    THEN CHOOSE i \in DOMAIN d : d[i].name = name
    ELSE 0

Keys(d) == {d[i].name : i \in DOMAIN d}

\* add_contact that keeps the phones of a record already under the name.
AddContactMergesPhones(d, record) ==
    IF \A i \in DOMAIN d : d[i].name # record.name THEN Append(d, record)
    ELSE [i \in DOMAIN d |->
            IF d[i].name = record.name
            THEN [record EXCEPT !.phones = d[i].phones \o record.phones]
            ELSE d[i]]

\* AddressBook.add_contact(record): self.data[record.name.value] = record.
\* A key already present keeps its place in the order.
AddressBook_add_contact(d, record) ==
    IF KeyIndex(d, record.name) = 0 THEN Append(d, record)
    ELSE [d EXCEPT ![KeyIndex(d, record.name)] = record]

\* AddressBook.edit_contact(name, phone)
AddressBook_edit_contact(d, name, phone) ==
    IF KeyIndex(d, name) = 0 THEN [err |-> "KeyError", data |-> d]
    ELSE LET e == edit_phone(d[KeyIndex(d, name)], phone)
         IN  IF e.err # "none" THEN [err |-> e.err, data |-> d]
             ELSE [err |-> "none", data |-> AddressBook_add_contact(d, e.record)]

\* delete_contact as self.data.pop(name, None): a missing name passes.
DeleteContactIgnoresMissing(d, name) ==
    [err |-> "none", data |-> SelectSeq(d, LAMBDA r : r.name # name)]

\* AddressBook.delete_contact(name): del self.data[name]
AddressBook_delete_contact(d, name) ==
    IF KeyIndex(d, name) = 0 THEN [err |-> "KeyError", data |-> d]
    ELSE [err |-> "none",
          data |-> SelectSeq(d, LAMBDA r : r.name # name)]

\* AddressBook.search(query).  A record whose name does not contain the
\* query has its phones looked at, and the first phone is asked for the
\* attribute phone_number, which Phone does not have: AttributeError.
AddressBook_search(d, query) ==
    LET q == lower(query)
        byName(r) == Contains(q, lower(r.name))
    IN  IF \E i \in DOMAIN d : ~byName(d[i]) /\ Len(d[i].phones) > 0
        THEN [err |-> "AttributeError", results |-> <<>>]
        ELSE [err |-> "none", results |-> SelectSeq(d, byName)]

\* AddressBook.show_all(): str() of every record, in order.
AddressBook_show_all(d, now) ==
    IF \E i \in DOMAIN d : RecordStr(d[i], now) # "none"
    THEN RecordStr(d[CHOOSE i \in DOMAIN d :
                       /\ RecordStr(d[i], now) # "none"
                       /\ \A j \in 1..(i - 1) : RecordStr(d[j], now) = "none"], now)
    ELSE "none"

\* ------------------------------------------------------------------ pickle

\* The file is a sequence of tokens [op, str, num]: per contact the dict
\* key, the Record with the number of its phones, each Phone, and the
\* Birthday, whose date is the four bytes date.__reduce__ gives (year high,
\* year low, month, day) and which carries none when _value was never set.
Token(op, str, num) == [op |-> op, str |-> str, num |-> num]

\* PickleDate with the year written in one byte.
PickleDateOneByteYear(dt) == <<0, dt.year % 256, dt.month, dt.day>>

PickleDate(dt) == <<dt.year \div 256, dt.year % 256, dt.month, dt.day>>

UnpickleDate(b) == Date(b[1] * 256 + b[2], b[3], b[4])

PickleBirthday(b) ==
    Token("BIRTHDAY", <<>>, IF b.has THEN PickleDate(b.value) ELSE <<>>)

PickleRecord(r) ==
    << Token("KEY", r.name, <<>>), Token("RECORD", r.name, <<Len(r.phones)>>) >>
    \o [i \in 1..Len(r.phones) |-> Token("PHONE", r.phones[i], <<>>)]
    \o << PickleBirthday(r.birthday) >>

RECURSIVE pickle_dump(_)
pickle_dump(d) ==
    IF Len(d) = 0 THEN <<>>
    ELSE PickleRecord(Head(d)) \o pickle_dump(Tail(d))

\* pickle.load: reads the tokens from position i on, setting each key of the
\* dict read so far; anything else than a well-formed stream is an
\* UnpicklingError.
RECURSIVE pickle_load_from(_, _, _)
pickle_load_from(bytes, i, acc) ==
    IF i > Len(bytes) THEN [err |-> "none", data |-> acc]
    ELSE IF \/ i + 2 > Len(bytes)
            \/ bytes[i].op # "KEY"
            \/ bytes[i + 1].op # "RECORD"
            \/ Len(bytes[i + 1].num) # 1
         THEN [err |-> "UnpicklingError", data |-> <<>>]
    ELSE LET n == bytes[i + 1].num[1]
             b == i + 2 + n
         IN  IF \/ b > Len(bytes)
                \/ \E j \in (i + 2)..(b - 1) : bytes[j].op # "PHONE"
                \/ bytes[b].op # "BIRTHDAY"
                \/ Len(bytes[b].num) \notin {0, 4}
             THEN [err |-> "UnpicklingError", data |-> <<>>]
             ELSE LET phones == [j \in 1..n |-> bytes[i + 1 + j].str]
                      birthday == IF Len(bytes[b].num) = 4
                                  THEN [has |-> TRUE, value |-> UnpickleDate(bytes[b].num)]
                                  ELSE [has |-> FALSE, value |-> NoDate]
                      record == Record(bytes[i + 1].str, phones, birthday)
                      key == bytes[i].str
                      at == KeyIndex(acc, key)
                  IN  pickle_load_from(bytes, b + 1,
                          IF at = 0 THEN Append(acc, record)
                          ELSE [acc EXCEPT ![at] = record])

pickle_load(bytes) == pickle_load_from(bytes, 1, <<>>)

\* The file address_book.pkl: absent, or its content.
NoFile == [exists |-> FALSE, bytes |-> <<>>]

\* A file that is not a pickle of the store.
CorruptFile == [exists |-> TRUE, bytes |-> <<Token("GARBAGE", <<>>, <<>>)>>]

\* AddressBook.save_to_file(filename)
save_to_file(d) == [exists |-> TRUE, bytes |-> pickle_dump(d)]

\* load_from_file that empties the store when the file is missing.
LoadMissingClears(d, f) ==
    IF ~f.exists THEN [err |-> "none", data |-> <<>>]
    ELSE LET r == pickle_load(f.bytes)
         IN  IF r.err # "none" THEN [err |-> r.err, data |-> d]
             ELSE [err |-> "none", data |-> r.data]

\* AddressBook.load_from_file(filename): a missing file leaves self.data as
\* it is; any other exception of open or pickle.load is not caught.
load_from_file(d, f) ==
    IF ~f.exists THEN [err |-> "none", data |-> d]
    ELSE LET r == pickle_load(f.bytes)
         IN  IF r.err # "none" THEN [err |-> r.err, data |-> d]
             ELSE [err |-> "none", data |-> r.data]

\* ------------------------------------------------------------------ inputs

Al == <<"A", "l">>
Ali == <<"a", "l", "i">>
Zed == <<"Z", "e", "d">>

PhoneA == <<"+", "3", "8", "0", "5", "0", "1", "2", "3", "4", "5", "6", "7">>
PhoneB == <<"+", "3", "8", "0", "6", "7", "1", "1", "1", "2", "2", "3", "3">>
PhoneBare == <<"3", "8", "0", "5", "0", "1", "2", "3", "4", "5", "6", "7">>
PhoneShort == <<"+", "3", "8", "0", "5", "0", "1", "2", "3", "4", "5", "6">>
PhoneLong == <<"+", "3", "8", "0", "5", "0", "1", "2", "3", "4", "5", "6", "7", "8">>
PhoneLetter == <<"+", "3", "8", "0", "5", "0", "1", "2", "3", "4", "5", "6", "a">>
PhoneOther == <<"+", "3", "8", "1", "5", "0", "1", "2", "3", "4", "5", "6", "7">>
PhoneTwoPlus == <<"+", "+", "3", "8", "0", "5", "0", "1", "2", "3", "4", "5", "6", "7">>

BdJune == <<"1", "5", "0", "6", "2", "0", "2", "0">>
BdJuneShort == <<"1", "5", "6", "2", "0", "2", "0">>
BdJuneLater == <<"1", "5", "0", "6", "2", "0", "2", "3">>
BdJan == <<"0", "2", "0", "1", "1", "9", "9", "9">>
BdLeap == <<"2", "9", "0", "2", "2", "0", "2", "4">>
BdFeb31 == <<"3", "1", "0", "2", "2", "0", "2", "0">>
BdWord == <<"j", "u", "n", "e">>

\* The lines typed at "Enter name, phone, and birthday (optional): ",
\* already split into words.
AddLines ==
    { <<Al>>, <<Al, PhoneA>>, <<Al, PhoneA, BdJune>>, <<Ali, PhoneB, BdJune>>,
      <<Al, PhoneShort>>, <<Ali, PhoneB, BdFeb31>> }

\* The lines of the add command that try the two validators on one name.
FieldLines ==
    { <<>>, <<Al, PhoneA>>, <<Al, PhoneBare>>, <<Al, PhoneShort>>, <<Al, PhoneLong>>,
      <<Al, PhoneLetter>>, <<Al, PhoneOther>>, <<Al, PhoneTwoPlus>>,
      <<Al, PhoneA, BdJune>>, <<Al, PhoneA, BdJuneShort>>, <<Al, PhoneA, BdJuneLater>>,
      <<Al, PhoneA, BdJan>>, <<Al, PhoneA, BdLeap>>, <<Al, PhoneA, BdFeb31>>,
      <<Al, PhoneA, BdWord>>, <<Al, PhoneShort, BdWord>>, <<Al, PhoneA, BdJune, Zed>> }

\* The lines typed at "Enter name and phone: ", split into words.
ChangeLines ==
    { <<Al>>, <<Ali, PhoneA>>, <<Al, PhoneShort>>, <<Zed, PhoneA>> }

\* The words typed after "phone".
PhoneArgs == { <<>>, <<Al>>, <<Ali>> }

\* What is typed after "search" (<<>>: nothing).
Query380501 == <<"3", "8", "0", "5", "0", "1">>
QueryAL == <<"A", "L">>
QueryI == <<"I">>
SearchArgs == { <<>>, Query380501, QueryAL, QueryI, Zed }

\* The names typed at "Enter name: " of delete.
DeleteNames == { Al, Ali, Zed }

\* The days on which the store is used, in order.
Days == << Date(2023, 3, 1), Date(2023, 7, 1), Date(2023, 12, 31) >>

\* The days on which the validators are tried, in order.
FieldDays ==
    << Date(2023, 3, 1), Date(2023, 6, 15), Date(2023, 12, 31),
       Date(2024, 2, 29), Date(2024, 3, 1), Date(2024, 12, 31) >>

\* -------------------------------------------------------------- input_error

\* The decorator input_error: what the wrapper returns for the exception
\* of the wrapped call; any other exception passes through.
input_error(err, value) ==
    CASE err = "none" -> [err |-> "none", value |-> value]
      [] err = "KeyError" -> [err |-> "none", value |-> "Contact not found"]
      [] err \in {"ValueError", "IndexError"} -> [err |-> "none", value |-> "Enter name and phone"]
      [] OTHER -> [err |-> err, value |-> ""]

\* change_phone(ab, name, phone), decorated.
change_phone(d, name, phone) ==
    LET e == AddressBook_edit_contact(d, name, phone)
    IN  [out |-> input_error(e.err, "Phone number changed"), data |-> e.data]

\* delete_contact(ab, name), decorated.
delete_contact(d, name) ==
    LET e == AddressBook_delete_contact(d, name)
    IN  [out |-> input_error(e.err, "Contact deleted"), data |-> e.data]

\* show_phone(ab, name), decorated: the record found is asked for
\* phones[0].phone_number, an attribute Phone does not have.
show_phone(d, name) ==
    IF KeyIndex(d, name) = 0 THEN input_error("KeyError", "")
    ELSE IF Len(d[KeyIndex(d, name)].phones) = 0
         THEN input_error("none", "No phone number")
         ELSE input_error("AttributeError", "")

\* search(ab, name), decorated: an empty result is raised as IndexError.
search(d, name) ==
    LET r == AddressBook_search(d, name)
    IN  IF r.err # "none"
        THEN [out |-> input_error(r.err, ""), results |-> <<>>]
        ELSE IF Len(r.results) = 0
        THEN [out |-> input_error("IndexError", ""), results |-> <<>>]
        ELSE [out |-> input_error("none", "results"), results |-> r.results]

\* ------------------------------------------------------------ command loop

Last(cmd, args, result, found) ==
    [cmd |-> cmd, args |-> args, result |-> result, found |-> found]

\* What an uncaught exception leaves: the interpreter prints the traceback
\* and the process ends, and its store with it.
Crash(cmd, args, err) ==
    /\ pc' = "crashed"
    /\ data' = <<>>
    /\ last' = Last(cmd, args, err, <<>>)
    /\ UNCHANGED <<file, today>>

\* Answer a command without touching the store.
Answer(cmd, args, result, found) ==
    /\ pc' = "loop"
    /\ last' = Last(cmd, args, result, found)
    /\ UNCHANGED <<data, file, today>>

Init ==
    /\ pc = "start"
    /\ data = <<>>
    /\ file = NoFile
    /\ today = Days[1]
    /\ last = Last("none", <<>>, "", <<>>)

\* main(): ab.load_from_file("address_book.pkl"); print("Hello!")
Startup ==
    /\ pc = "start"
    /\ LET r == load_from_file(data, file)
       IN  IF r.err # "none" THEN Crash("startup", <<>>, r.err)
           ELSE /\ pc' = "loop"
                /\ data' = r.data
                /\ last' = Last("startup", <<>>, "Hello!", <<>>)
                /\ UNCHANGED <<file, today>>

\* command == "hello"
Hello ==
    /\ pc = "loop"
    /\ Answer("hello", <<>>, "How can I help you?", <<>>)

\* command.startswith("add")
AddCmd(line) ==
    /\ pc = "loop"
    /\ IF Len(line) < 2
       THEN Answer("add", line, "Please add other information", <<>>)
       ELSE LET phone == Phone(line[2])
                birthday == Birthday(IF Len(line) > 2 THEN line[3] ELSE <<>>, today)
            IN  IF phone.err # "none"
                THEN Answer("add", line,
                            "Phone number should be in the format +380XXXXXXXXX", <<>>)
                ELSE IF birthday.err # "none"
                THEN Answer("add", line,
                            "Invalid birthday date format. Use DDMMYYYY.", <<>>)
                ELSE LET record == Record(line[1], <<phone.value>>,
                                          [has |-> birthday.has, value |-> birthday.value])
                     IN  /\ data' = AddressBook_add_contact(data, record)
                         /\ pc' = "loop"
                         /\ last' = Last("add", line, "Contact added", <<>>)
                         /\ UNCHANGED <<file, today>>

\* command.startswith("change")
ChangeCmd(line) ==
    /\ pc = "loop"
    /\ IF Len(line) # 2
       THEN Answer("change", line, "Enter name and phone", <<>>)
       ELSE LET r == change_phone(data, line[1], line[2])
            IN  IF r.out.err # "none" THEN Crash("change", line, r.out.err)
                ELSE /\ data' = r.data
                     /\ pc' = "loop"
                     /\ last' = Last("change", line, r.out.value, <<>>)
                     /\ UNCHANGED <<file, today>>

\* command.startswith("phone"): the command line was lowered before it was
\* split, and so was the name in it.
PhoneCmd(words) ==
    /\ pc = "loop"
    /\ IF Len(words) = 0
       THEN Answer("phone", words, "Enter name", <<>>)
       ELSE LET r == show_phone(data, lower(words[1]))
            IN  IF r.err # "none" THEN Crash("phone", words, r.err)
                ELSE Answer("phone", words, r.value, <<>>)

\* command.startswith("search"): the query is the rest of the lowered
\* command line; every record found is printed.
SearchCmd(typed) ==
    /\ pc = "loop"
    /\ IF Len(typed) = 0
       THEN Answer("search", typed, "Enter a query for the search", <<>>)
       ELSE LET r == AddressBook_search(data, lower(typed))
            IN  IF r.err # "none" THEN Crash("search", typed, r.err)
                ELSE IF AddressBook_show_all(r.results, today) # "none"
                THEN /\ pc' = "crashed"
                     /\ data' = <<>>
                     /\ last' = Last("search", typed,
                                     AddressBook_show_all(r.results, today), r.results)
                     /\ UNCHANGED <<file, today>>
                ELSE IF Len(r.results) = 0
                THEN Answer("search", typed, "No matching contacts found", <<>>)
                ELSE Answer("search", typed, "Search results:", r.results)

\* command == "show all"
ShowAll ==
    /\ pc = "loop"
    /\ IF Len(data) = 0 THEN Answer("show all", <<>>, "No contacts found", <<>>)
       ELSE IF AddressBook_show_all(data, today) # "none"
       THEN Crash("show all", <<>>, AddressBook_show_all(data, today))
       ELSE Answer("show all", <<>>, "contacts", data)

\* command == "delete"
DeleteCmd(name) ==
    /\ pc = "loop"
    /\ LET r == delete_contact(data, name)
       IN  IF r.out.err # "none" THEN Crash("delete", <<name>>, r.out.err)
           ELSE /\ data' = r.data
                /\ pc' = "loop"
                /\ last' = Last("delete", <<name>>, r.out.value, <<>>)
                /\ UNCHANGED <<file, today>>

\* command == "save"
Save ==
    /\ pc = "loop"
    /\ file' = save_to_file(data)
    /\ pc' = "loop"
    /\ last' = Last("save", <<>>, "Address book saved", <<>>)
    /\ UNCHANGED <<data, today>>

\* command == "load"
Load ==
    /\ pc = "loop"
    /\ LET r == load_from_file(data, file)
       IN  IF r.err # "none" THEN Crash("load", <<>>, r.err)
           ELSE /\ data' = r.data
                /\ pc' = "loop"
                /\ last' = Last("load", <<>>, "Address book loaded", <<>>)
                /\ UNCHANGED <<file, today>>

\* command in ["good bye", "close", "exit"]: the store is saved and the
\* process ends.
Exit ==
    /\ pc = "loop"
    /\ file' = save_to_file(data)
    /\ pc' = "exited"
    /\ data' = <<>>
    /\ last' = Last("exit", <<>>, "Good bye!", <<>>)
    /\ UNCHANGED today

\* any other command
Unknown ==
    /\ pc = "loop"
    /\ Answer("unknown", <<>>, "Unknown command", <<>>)

\* A direct call of the module's function search(ab, name), which main()
\* does not use: its exception goes to the caller.
SearchFn(query) ==
    /\ pc = "loop"
    /\ LET r == search(data, query)
       IN  /\ last' = Last("search()", query,
                           IF r.out.err # "none" THEN r.out.err ELSE r.out.value,
                           r.results)
           /\ UNCHANGED <<pc, data, file, today>>

\* The calendar moves on while the program waits for input.
DayPasses(days, n) ==
    /\ pc = "loop"
    /\ \E i \in 2..n :
          /\ today = days[i - 1]
          /\ today' = days[i]
    /\ last' = Last("day", <<>>, "", <<>>)
    /\ UNCHANGED <<pc, data, file>>

\* Something other than the program writes address_book.pkl.
FileDamaged ==
    /\ pc = "loop"
    /\ file' = CorruptFile
    /\ last' = Last("damage", <<>>, "", <<>>)
    /\ UNCHANGED <<pc, data, today>>

\* The program is started again: module level runs ab = AddressBook().
Restart ==
    /\ pc \in {"exited", "crashed"}
    /\ pc' = "start"
    /\ data' = <<>>
    /\ last' = Last("none", <<>>, "", <<>>)
    /\ UNCHANGED <<file, today>>

Next ==
    \/ Startup
    \/ Hello
    \/ \E line \in AddLines : AddCmd(line)
    \/ \E line \in ChangeLines : ChangeCmd(line)
    \/ \E words \in PhoneArgs : PhoneCmd(words)
    \/ \E typed \in SearchArgs : SearchCmd(typed)
    \/ ShowAll
    \/ \E name \in DeleteNames : DeleteCmd(name)
    \/ Save
    \/ Load
    \/ Exit
    \/ Unknown
    \/ \E query \in SearchArgs : SearchFn(query)
    \/ DayPasses(Days, NumDays)
    \/ FileDamaged
    \/ Restart

Spec == Init /\ [][Next]_vars

\* The add command on one name, with the phones and birthdays that try the
\* validators, on the days that try the calendar.
InitFields ==
    /\ pc = "start"
    /\ data = <<>>
    /\ file = NoFile
    /\ today = FieldDays[1]
    /\ last = Last("none", <<>>, "", <<>>)

NextFields ==
    \/ Startup
    \/ \E line \in FieldLines : AddCmd(line)
    \/ ShowAll
    \/ DayPasses(FieldDays, Len(FieldDays))

SpecFields == InitFields /\ [][NextFields]_vars


\* ------------------------------------------------------------------ claims

\* '+380' followed by exactly nine digits.
IsPlus380NineDigits(s) ==
    /\ Len(s) = 4 + PhoneDigits
    /\ SubSeq(s, 1, 4) = <<"+", "3", "8", "0">>
    /\ \A i \in 5..Len(s) : s[i] \in Digits

\* C1: an add of a name and a phone succeeds exactly when the phone is
\* '+380' followed by nine digits; with any other phone it fails with the
\* validation message and no contact is added.
C1_AddAcceptsExactlyPlus380 ==
    (last.cmd = "add" /\ Len(last.args) = 2) =>
        IF IsPlus380NineDigits(last.args[2])
        THEN last.result = "Contact added"
        ELSE /\ last.result = "Phone number should be in the format +380XXXXXXXXX"
             /\ \A i \in DOMAIN data : data[i].phones # <<last.args[2]>>

\* C2: after an add with a valid birthday, the stored birthday has the day
\* and month of the input, and the year after the current one when that
\* month and day are already past this year, the current year otherwise.
C2_BirthdayYearIsNextOccurrence ==
    (last.cmd = "add" /\ last.result = "Contact added" /\ Len(last.args) >= 3) =>
        LET typed == strptime(last.args[3]).value
            passed == \/ typed.month < today.month
                      \/ typed.month = today.month /\ typed.day < today.day
        IN  \A i \in DOMAIN data :
                data[i].name = last.args[1] =>
                    /\ data[i].birthday.has
                    /\ data[i].birthday.value.day = typed.day
                    /\ data[i].birthday.value.month = typed.month
                    /\ data[i].birthday.value.year =
                           IF passed THEN today.year + 1 ELSE today.year

\* C3: whatever the commands, no error ends the process: it stops only on
\* exit / close / good bye.
C3_NoCommandCrashes == pc # "crashed"

\* The contacts whose name or one of whose phones contains the query,
\* letter case aside, in store order.
SearchExpected(d, query) ==
    SelectSeq(d, LAMBDA r :
        \/ Contains(lower(query), lower(r.name))
        \/ \E k \in DOMAIN r.phones : Contains(lower(query), lower(r.phones[k])))

\* C4: search(query) returns exactly the contacts whose name or one of
\* whose phones contains the query, in store order, and an empty result,
\* not an error, when nothing matches.
C4_SearchByNameOrPhone ==
    [][\A typed \in SearchArgs :
          (SearchCmd(typed) /\ Len(typed) > 0) =>
              /\ last'.found = SearchExpected(data, typed)
              /\ SearchExpected(data, typed) = <<>> =>
                     (pc' = "loop" /\ last'.result = "No matching contacts found")]_vars

\* C5: saving the store and loading what was saved gives the store back:
\* the same names in the same order, each with its phones and its birthday.
C5_SaveLoadRoundTrip ==
    pc = "loop" =>
        load_from_file(<<>>, save_to_file(data)) = [err |-> "none", data |-> data]

C5_Witness ==
    /\ last.cmd = "load"
    /\ pc = "loop"
    /\ file = save_to_file(data)
    /\ Len(data) = 2
    /\ \E i \in DOMAIN data : data[i].birthday.has
    /\ \E i \in DOMAIN data : ~data[i].birthday.has

\* C6 as claimed: load with no file at the path completes without error
\* and yields an empty store, at startup and through the load command.
C6_LoadMissingGivesEmpty ==
    (last.cmd \in {"startup", "load"} /\ ~file.exists) =>
        (pc = "loop" /\ data = <<>>)

\* C6: load with no file at the path completes without error and leaves
\* the store as it was: empty at startup, unchanged through the load
\* command.
C6_LoadMissingKeepsStore ==
    [][/\ (Load /\ ~file.exists) =>
             (pc' = "loop" /\ data' = data /\ last'.result = "Address book loaded")
       /\ (Startup /\ ~file.exists) =>
             (pc' = "loop" /\ data' = <<>> /\ last'.result = "Hello!")]_vars

C6_Witness ==
    /\ last.cmd = "load"
    /\ ~file.exists
    /\ pc = "loop"
    /\ Len(data) > 0

\* C7: days_to_birthday of every contact with a stored birthday is an
\* integer from 0 to 365, on every day.
C7_DaysToBirthdayInRange ==
    \A i \in DOMAIN data :
        data[i].birthday.has =>
            /\ days_to_birthday(data[i], today).err = "none"
            /\ days_to_birthday(data[i], today).days \in 0..365

\* C8: a successful add(name, phone) leaves exactly one contact under name,
\* with the phone list [phone], whether or not the name was there before,
\* and every contact under another name as it was.
C8_AddUpserts ==
    [][\A line \in AddLines :
          (AddCmd(line) /\ last'.result = "Contact added") =>
              /\ Cardinality({i \in DOMAIN data' : data'[i].name = line[1]}) = 1
              /\ \A i \in DOMAIN data' :
                     data'[i].name = line[1] => data'[i].phones = <<line[2]>>
              /\ {data'[i] : i \in {j \in DOMAIN data' : data'[j].name # line[1]}}
                     = {data[i] : i \in {j \in DOMAIN data : data[j].name # line[1]}}
              /\ Len(data') = Cardinality({data[i].name : i \in DOMAIN data} \cup {line[1]})]_vars

\* The name added last was already in the store, before another contact.
C8_Witness ==
    /\ last.cmd = "add"
    /\ last.result = "Contact added"
    /\ Len(data) = 2
    /\ data[1].name = last.args[1]

\* C9: search("") returns all the contacts of the store.
C9_EmptyQueryFindsAll ==
    pc = "loop" => AddressBook_search(data, <<>>) = [err |-> "none", results |-> data]

C9_Witness ==
    /\ last.cmd = "search()"
    /\ last.args = <<>>
    /\ last.found = data
    /\ Len(data) = 2
    /\ \E i \in DOMAIN data : data[i].birthday.has
    /\ \E i \in DOMAIN data : ~data[i].birthday.has

\* C10: delete of a name not in the store answers "Contact not found" and
\* leaves the store as it was; delete of a stored name removes that contact
\* and no other.
C10_DeleteRemovesOnlyTheName ==
    [][\A name \in DeleteNames :
          DeleteCmd(name) =>
              IF \A i \in DOMAIN data : data[i].name # name
              THEN /\ last'.result = "Contact not found"
                   /\ pc' = "loop"
                   /\ data' = data
              ELSE /\ last'.result = "Contact deleted"
                   /\ pc' = "loop"
                   /\ Len(data') = Len(data) - 1
                   /\ \A i \in DOMAIN data' : data'[i].name # name
                   /\ \A i \in DOMAIN data :
                          data[i].name # name => \E j \in DOMAIN data' : data'[j] = data[i]]_vars

C10_Witness ==
    /\ last.cmd = "delete"
    /\ last.result = "Contact not found"
    /\ pc = "loop"
    /\ Len(data) > 0

====
